---- MODULE Spec2Model ----
(***************************************************************************)
(* Model of package grace: Task, the signature verifier and TaskChain.     *)
(*                                                                         *)
(* A caller creates tasks with NewTask, collects them (and possibly nil    *)
(* entries) in a TaskChainConfig, builds a TaskChain[T] with NewTaskChain  *)
(* and calls Run on it.  Types are reflect.Type descriptors, values are    *)
(* reflect.Value descriptors (static type, dynamic type, origin), errors   *)
(* are the ordered list of the causes reachable through %w / errors.Join.  *)
(***************************************************************************)
EXTENDS Integers, Sequences, FiniteSets, TLC

\* Longest Tasks slice a caller puts in a TaskChainConfig.
MaxTasks == 2

----------------------------------------------------------------------------
(* Types ******************************************************************)

\* The declared types that occur in the signatures of the callables.
Types == {"int", "string", "any", "error"}

\* The type parameters T a chain is instantiated with.
ResultTypes == {"int", "any", "error"}

IsInterface(t) == t \in {"any", "error"}

\* The method set of t holds every method of the interface type iface.
Implements(t, iface) ==
    \/ iface = "any"
    \/ iface = "error" /\ t \in {"error", "errorString"}

\* reflect.Type.AssignableTo: a value of type a may be assigned to type b.
\* The nil Type (reflect.TypeOf(nil)) has no methods to call: see
\* verifyInitialParams.
AssignableTo(a, b) == a = b \/ (IsInterface(b) /\ Implements(a, b))

\* The dynamic types a value of static type t can hold ("nil": the nil
\* interface value).
DynTypes(t) ==
    IF t = "any" THEN {"int", "nil"}
    ELSE IF t = "error" THEN {"errorString", "nil"}
    ELSE {t}

(* Errors ******************************************************************)

\* One cause in an error's chain: the message and the task index it names.
E(msg, idx) == [msg |-> msg, idx |-> idx]

NoErr == <<>>

\* fmt.Errorf("...: %w", err): a new error that wraps err.
Wrap(msg, idx, err) == <<E(msg, idx)>> \o err

\* errors.Join(a, b): nil operands are dropped, order is kept.
Join(a, b) == a \o b

\* errors.Is(err, target) for a target that is a single cause.
Is(err, target) == \E k \in 1..Len(err) : err[k] = target

NotFuncErr == <<E("Fn must be a function", -1)>>
IncompatibleFunctionSignatureErr == <<E("incompatible task function signatures", -1)>>
Canceled == <<E("context canceled", -1)>>
DeadlineExceeded == <<E("context deadline exceeded", -1)>>

\* The errors the callbacks of the model return.
TaskErr(idx) == <<E("task error", idx)>>
TaskCleanupErr(idx) == <<E("task cleanup error", idx)>>
ChainCleanupErr == <<E("chain cleanup error", -1)>>

(* Values ******************************************************************)

\* A reflect.Value: its static type st (Value.Type()), the dynamic type dt of
\* what Interface() yields, and where it was produced (kind "arg": argument
\* pos of Run; kind "out": output pos of the task with index src; kind
\* "zero": a zero value).
Val(st, dt, kind, src, pos) ==
    [st |-> st, dt |-> dt, kind |-> kind, src |-> src, pos |-> pos]

\* Zero[T](): *new(T).
Zero(T) == Val(T, IF IsInterface(T) THEN "nil" ELSE T, "zero", 0, 0)

\* No value: Run has not returned.
NoVal == Val("none", "none", "none", 0, 0)

IsZero(v) == v.kind = "zero"

(* Task ********************************************************************)

\* The callables (TaskConfig.Fn) the callers wrap: their declared inputs and
\* outputs.  The first two are the "first" and "second" functions of the
\* chain tests; the others vary the counts and put interface types on either
\* side of a pair.
Fn(in, out) == [kind |-> "func", in |-> in, out |-> out]

Fns ==
    { Fn(<<"string">>, <<"int", "error">>),
      Fn(<<"int">>, <<"int">>),
      Fn(<<>>, <<>>),
      Fn(<<"int">>, <<"any">>),
      Fn(<<"any">>, <<"int">>),
      Fn(<<>>, <<"error">>),
      Fn(<<"int">>, <<>>) }

\* TaskConfig.Fn may also be nil or a value that is no function.
NilFn == [kind |-> "nil", in |-> <<>>, out |-> <<>>]
IntFn == [kind |-> "int", in |-> <<>>, out |-> <<>>]

\* A nil *Task.
NilTask ==
    [nil |-> TRUE, Name |-> 0, Fn |-> NilFn, ReturnValueTypes |-> <<>>,
     hasErrorOut |-> FALSE, Cleanup |-> FALSE]

\* isFunc: fn.Kind() != reflect.Func gives NotFuncErr.
isFunc(fn) == IF fn.kind # "func" THEN NotFuncErr ELSE NoErr

\* hasErrorOut: the last declared output is assignable to error.
hasErrorOut(fn) ==
    Len(fn.out) > 0 /\ AssignableTo(fn.out[Len(fn.out)], "error")

\* getReturnValueTypes: the declared outputs without the trailing error.
getReturnValueTypes(fn, hasErrOut) ==
    IF Len(fn.out) = 0 THEN <<>>
    ELSE LET size == IF hasErrOut THEN Len(fn.out) - 1 ELSE Len(fn.out)
         IN  SubSeq(fn.out, 1, size)

\* NewTask: the task, or nil with an error when Fn is nil or no function.
\* Cleanup tells whether TaskConfig.Cleanup is non-nil.
NewTask(name, cleanup, fn) ==
    IF fn.kind = "nil"
    THEN [task |-> NilTask, err |-> <<E("Fn cannot be nil", -1)>>]
    ELSE IF isFunc(fn) # NoErr
    THEN [task |-> NilTask,
          err |-> Wrap("failed to create task", -1, isFunc(fn))]
    ELSE [task |-> [nil |-> FALSE, Name |-> name, Fn |-> fn,
                    ReturnValueTypes |-> getReturnValueTypes(fn, hasErrorOut(fn)),
                    hasErrorOut |-> hasErrorOut(fn), Cleanup |-> cleanup],
          err |-> NoErr]

(* Type verifier ***********************************************************)

\* The type test of verifyTaskCompatibility at position k (1-based here):
\* input.Fn.Type().In(k).AssignableTo(output.ReturnValueTypes[k]).
typeCheckAt(output, input, k) ==
    AssignableTo(input.Fn.in[k], output.ReturnValueTypes[k])

\* verifyTaskCompatibility(output, input): nil, or
\* IncompatibleFunctionSignatureErr joined with the detail.
verifyTaskCompatibility(output, input) ==
    IF Len(output.ReturnValueTypes) # Len(input.Fn.in)
    THEN Join(IncompatibleFunctionSignatureErr,
              <<E("output and input counts differ", -1)>>)
    ELSE IF \E k \in 1..Len(output.ReturnValueTypes) :
                ~typeCheckAt(output, input, k)
    THEN Join(IncompatibleFunctionSignatureErr,
              <<E("is not assignable to", -1)>>)
    ELSE NoErr

\* verifyReturnType[T](last): the last declared output of the last task
\* against T.
verifyReturnType(T, last) ==
    IF Len(last.Fn.out) = 0 THEN NoErr
    ELSE LET outTyp == last.Fn.out[Len(last.Fn.out)]
         IN  IF ~AssignableTo(outTyp, T)
             THEN <<E("return type is not compatible to the last output type", -1)>>
             ELSE NoErr

\* The first position of params that verifyInitialParams does not accept,
\* 0 when there is none.  params holds the runtime types of the arguments,
\* "nil" for an untyped nil, whose reflect.TypeOf is the nil Type.
firstBadParam(firstFn, params) ==
    LET bad == {k \in 1..Len(params) :
                   params[k] = "nil" \/ ~AssignableTo(params[k], firstFn.in[k])}
    IN  IF bad = {} THEN 0 ELSE CHOOSE k \in bad : \A m \in bad : k <= m

\* verifyInitialParams(firstFn, params): an error, or a fault on calling
\* AssignableTo on the nil Type.
verifyInitialParams(firstFn, params) ==
    IF Len(params) # Len(firstFn.in)
    THEN [panic |-> FALSE, err |-> <<E("invalid input params: count", -1)>>]
    ELSE LET k == firstBadParam(firstFn, params)
         IN  IF k = 0 THEN [panic |-> FALSE, err |-> NoErr]
             ELSE IF params[k] = "nil" THEN [panic |-> TRUE, err |-> NoErr]
             ELSE [panic |-> FALSE, err |-> <<E("invalid input params: type", k)>>]

(* TaskChain construction **************************************************)

\* append(tasks[:i], tasks[i+1:]...) on the backing array arr of a slice of
\* length n: the elements after index i move one place down, in place.
removeAt(arr, i, n) ==
    [j \in 1..Len(arr) |-> IF j >= i + 1 /\ j <= n - 1 THEN arr[j + 1] ELSE arr[j]]

\* filterNil without the step back (i--) after a removal.
RECURSIVE filterNilNoStepBack(_, _, _)
filterNilNoStepBack(arr, i, n) ==
    IF i >= n THEN [arr |-> arr, n |-> n]
    ELSE IF arr[i + 1].nil THEN filterNilNoStepBack(removeAt(arr, i, n), i + 1, n - 1)
    ELSE filterNilNoStepBack(arr, i + 1, n)

\* The nil filter of NewTaskChain from index i on: the backing array and the
\* length of tasks when the loop ends.
RECURSIVE filterNil(_, _, _)
filterNil(arr, i, n) ==
    IF i >= n THEN [arr |-> arr, n |-> n]
    ELSE IF arr[i + 1].nil THEN filterNil(removeAt(arr, i, n), i, n - 1)
    ELSE filterNil(arr, i + 1, n)

\* The first error of verifyTaskCompatibility over the adjacent pairs.
RECURSIVE verifyPairs(_, _)
verifyPairs(tasks, i) ==
    IF i >= Len(tasks) THEN NoErr
    ELSE LET err == verifyTaskCompatibility(tasks[i], tasks[i + 1])
         IN  IF err # NoErr THEN err ELSE verifyPairs(tasks, i + 1)

NilChain ==
    [nil |-> TRUE, Tasks |-> <<>>, Cleanup |-> FALSE, Name |-> "",
     hasOutput |-> FALSE]

\* emptyChain that keeps the Cleanup of the config.
emptyChainWithCleanup ==
    [nil |-> FALSE, Tasks |-> <<>>, Cleanup |-> TRUE, Name |-> "",
     hasOutput |-> FALSE]

\* The chain NewTaskChain returns for no tasks.
emptyChain ==
    [nil |-> FALSE, Tasks |-> <<>>, Cleanup |-> FALSE, Name |-> "",
     hasOutput |-> FALSE]

\* NewTaskChain[T](cfg): the chain (or nil), the error, and what the
\* caller's cfg.Tasks holds afterwards.
NewTaskChain(T, cfg) ==
    LET f     == filterNil(cfg.Tasks, 0, Len(cfg.Tasks))
        tasks == SubSeq(f.arr, 1, f.n)
        size  == f.n
        perr  == verifyPairs(tasks, 1)
    IN  IF size = 0
        THEN [chain |-> emptyChain, err |-> NoErr, Tasks |-> f.arr]
        ELSE IF perr # NoErr
        THEN [chain |-> NilChain,
              err |-> Wrap("failed to create task", -1, perr), Tasks |-> f.arr]
        ELSE IF verifyReturnType(T, tasks[size]) # NoErr
        THEN [chain |-> NilChain,
              err |-> Wrap("failed to create task", -1,
                           verifyReturnType(T, tasks[size])),
              Tasks |-> f.arr]
        ELSE [chain |-> [nil |-> FALSE, Tasks |-> tasks, Cleanup |-> cfg.Cleanup,
                         Name |-> cfg.Name,
                         hasOutput |-> Len(tasks[size].ReturnValueTypes) > 0],
              err |-> NoErr, Tasks |-> f.arr]

(* Task.Run and the cleanups ***********************************************)

\* reflect.Value.Call accepts args for fn: the count is NumIn and each
\* argument's type is assignable to the parameter's type; otherwise it panics.
callAccepts(fn, args) ==
    /\ Len(args) = Len(fn.in)
    /\ \A k \in 1..Len(args) : AssignableTo(args[k].st, fn.in[k])

\* The values a call of fn can return (ret): one per declared output, of the
\* declared type, holding any dynamic type of it.
Returns(fn, idx) ==
    { [k \in 1..Len(fn.out) |-> Val(fn.out[k], dts[k], "out", idx, k)] :
        dts \in { d \in [1..Len(fn.out) -> {"int", "string", "errorString", "nil"}] :
                     \A k \in 1..Len(fn.out) : d[k] \in DynTypes(fn.out[k]) } }

\* The outputs of ret that are data: ret without the trailing error.
dataOuts(t, ret) ==
    IF t.hasErrorOut THEN SubSeq(ret, 1, Len(ret) - 1) ELSE ret

\* The callable returned a non-nil error in its trailing error output.
signalsErr(t, ret) == t.hasErrorOut /\ ret[Len(ret)].dt # "nil"

\* taskRun without the test of the trailing error.
taskRunIgnoresErr(t, idx, ret) ==
    IF t.hasErrorOut
    THEN [v |-> SubSeq(ret, 1, Len(ret) - 1), err |-> NoErr]
    ELSE [v |-> ret, err |-> NoErr]

\* Task.Run after Fn.Call returned ret: the values and the error it hands to
\* doCleanup.  idx names the task in the error of its callable.
taskRun(t, idx, ret) ==
    IF t.hasErrorOut
    THEN IF ret[Len(ret)].dt # "nil"
         THEN [v |-> <<>>, err |-> TaskErr(idx)]
         ELSE [v |-> SubSeq(ret, 1, Len(ret) - 1), err |-> NoErr]
    ELSE [v |-> ret, err |-> NoErr]

\* taskDoCleanup that drops the error of the Cleanup callback.
taskDoCleanupDropsErr(t, idx, v, err, fail) == [v |-> v, err |-> err]

\* taskDoCleanup that joins the Cleanup's error behind the task's.
taskDoCleanupSwapped(t, idx, v, err, fail) ==
    IF t.Cleanup /\ fail
    THEN [v |-> v, err |-> Join(err, TaskCleanupErr(idx))]
    ELSE [v |-> v, err |-> err]

\* Task.doCleanup(v, err); fail: the Cleanup callback returns an error.
taskDoCleanup(t, idx, v, err, fail) ==
    IF t.Cleanup /\ fail
    THEN [v |-> v, err |-> Join(TaskCleanupErr(idx), err)]
    ELSE [v |-> v, err |-> err]

\* chainDoCleanup that joins the errors the other way round.
chainDoCleanupSwapped(tc, v, err, fail) ==
    IF tc.Cleanup /\ fail
    THEN [v |-> v, err |-> Join(err, ChainCleanupErr)]
    ELSE [v |-> v, err |-> err]

\* TaskChain.doCleanup(v, err); fail: the Cleanup callback returns an error.
chainDoCleanup(tc, v, err, fail) ==
    IF tc.Cleanup /\ fail
    THEN [v |-> v, err |-> Join(ChainCleanupErr, err)]
    ELSE [v |-> v, err |-> err]

\* afterTask that hands the task's last value, when it has one, to the
\* cleanup of Run in place of the zero value.
afterTaskKeepsValue(typ, idx, results, err) ==
    IF err # NoErr
    THEN [stop |-> TRUE,
          v |-> IF Len(results) > 0
                THEN Val(typ, results[Len(results)].dt, "out", idx, Len(results))
                ELSE Zero(typ),
          err |-> Wrap("error running task", idx, err)]
    ELSE [stop |-> FALSE, v |-> Zero(typ), err |-> NoErr]

\* The loop of Run after t.Run returned (results, err) for the task with index
\* idx: it stops with the zero value and the wrapped error, or goes on.
afterTask(typ, idx, results, err) ==
    IF err # NoErr
    THEN [stop |-> TRUE, v |-> Zero(typ),
          err |-> Wrap("error running task", idx, err)]
    ELSE [stop |-> FALSE, v |-> Zero(typ), err |-> NoErr]

\* currentResults[len-1].Interface().(T) succeeds.
assertsTo(v, T) ==
    /\ v.dt # "nil"
    /\ IF IsInterface(T) THEN Implements(v.dt, T) ELSE v.dt = T

\* The value of the type assertion: v as a T.
asT(v, T) == Val(T, v.dt, v.kind, v.src, v.pos)

(* State *******************************************************************)

VARIABLES
    config,          \* the caller's TaskChainConfig
    given,           \* config.Tasks as the caller passed it to NewTaskChain
    T,               \* the type parameter of NewTaskChain[T]
    chain,           \* the *TaskChain[T] NewTaskChain returned
    newErr,          \* the error NewTaskChain returned
    pc,              \* where the caller, or the Run call, stands
    ctx,             \* the ctx argument of Run: "nil" or "ctx"
    ctxErr,          \* ctx.Err()
    i,               \* Run: the index of the loop over tc.Tasks
    currentResults,  \* Run: the values threaded through the tasks
    taskV, taskErr,  \* Task.Run: the arguments of its doCleanup
    pendV, pendErr,  \* Run: the arguments of tc.doCleanup
    retV, retErr,    \* what Run returned
    panic,           \* the operation that panicked, "none" otherwise
    log,             \* what the Run call did, in order
    parked           \* the Run call of a second caller while the first one steps

vars ==
    <<config, given, T, chain, newErr, pc, ctx, ctxErr, i, currentResults,
      taskV, taskErr, pendV, pendErr, retV, retErr, panic, log, parked>>

\* What NewTaskChain leaves: Run changes none of it.
builtVars == <<config, given, T, chain, newErr>>

runVars ==
    <<ctx, ctxErr, i, currentResults, taskV, taskErr, pendV, pendErr, retV,
      retErr, panic, log, parked>>

\* The argument lists the callers pass to Run, as the runtime types of the
\* arguments ("nil": an untyped nil).
Params ==
    {<<>>, <<"int">>, <<"string">>, <<"nil">>, <<"int", "int">>}

\* An entry of log: what happened (ev), the index of the task it happened to,
\* the values passed or returned, and whether a callback returned an error.
Ev(ev, idx, vals, fail) == [ev |-> ev, idx |-> idx, vals |-> vals, fail |-> fail]

\* reflect.ValueOf(params[k]) for each argument of Run.
argValues(params) ==
    [k \in 1..Len(params) |-> Val(params[k], params[k], "arg", 0, k)]

\* The locals of a Run call that has not begun.
idleCall ==
    [pc |-> "idle", ctx |-> "nil", ctxErr |-> NoErr, i |-> 0,
     currentResults |-> <<>>, taskV |-> <<>>, taskErr |-> NoErr,
     pendV |-> NoVal, pendErr |-> NoErr, retV |-> NoVal, retErr |-> NoErr,
     log |-> <<>>]

\* The locals of the Run call that steps.
thisCall ==
    [pc |-> pc, ctx |-> ctx, ctxErr |-> ctxErr, i |-> i,
     currentResults |-> currentResults, taskV |-> taskV, taskErr |-> taskErr,
     pendV |-> pendV, pendErr |-> pendErr, retV |-> retV, retErr |-> retErr,
     log |-> log]

Init ==
    /\ config = [Name |-> "chain", Cleanup |-> FALSE, Tasks |-> <<>>]
    /\ given = <<>>
    /\ T = "none"
    /\ chain = NilChain
    /\ newErr = NoErr
    /\ pc = "config"
    /\ ctx = "nil"
    /\ ctxErr = NoErr
    /\ i = 0
    /\ currentResults = <<>>
    /\ taskV = <<>>
    /\ taskErr = NoErr
    /\ pendV = NoVal
    /\ pendErr = NoErr
    /\ retV = NoVal
    /\ retErr = NoErr
    /\ panic = "none"
    /\ log = <<>>
    /\ parked = idleCall

(* The caller builds the config ********************************************)

\* The caller creates a task with NewTask and appends what it got (nil when
\* NewTask failed) to config.Tasks.
AddTask(cleanup, fn) ==
    /\ pc = "config"
    /\ Len(config.Tasks) < MaxTasks
    /\ config' = [config EXCEPT
                    !.Tasks = Append(@, NewTask(Len(@) + 1, cleanup, fn).task)]
    /\ UNCHANGED <<given, T, chain, newErr, pc>>
    /\ UNCHANGED runVars

\* The caller calls NewTaskChain[t] with or without a Cleanup.
CallNewTaskChain(t, cleanup) ==
    /\ pc = "config"
    /\ LET r == NewTaskChain(t, [config EXCEPT !.Cleanup = cleanup])
       IN  /\ config' = [config EXCEPT !.Cleanup = cleanup, !.Tasks = r.Tasks]
           /\ chain' = r.chain
           /\ newErr' = r.err
           /\ pc' = IF r.chain.nil THEN "rejected" ELSE "idle"
    /\ given' = config.Tasks
    /\ T' = t
    /\ UNCHANGED runVars

(* TaskChain.Run ***********************************************************)

\* tc.doCleanup(v, err) is the next step of Run.
toCleanup(v, err) ==
    /\ pendV' = v
    /\ pendErr' = err
    /\ pc' = "tcCleanup"

\* Run(c, params...) up to the loop over the tasks; e is what c.Err() gives
\* when Run is called.
Run(c, e, params) ==
    /\ pc = "idle"
    /\ ctx' = c
    /\ ctxErr' = e
    /\ IF Len(chain.Tasks) = 0
       THEN /\ toCleanup(Zero(T), NoErr)
            /\ UNCHANGED <<i, currentResults, panic>>
       ELSE LET r == verifyInitialParams(chain.Tasks[1].Fn, params)
            IN  IF r.panic
                THEN /\ pc' = "panic"
                     /\ panic' = "verifyInitialParams"
                     /\ UNCHANGED <<i, currentResults, pendV, pendErr>>
                ELSE IF r.err # NoErr
                THEN /\ toCleanup(Zero(T), Wrap("error running", -1, r.err))
                     /\ UNCHANGED <<i, currentResults, panic>>
                ELSE /\ currentResults' = argValues(params)
                     /\ i' = 0
                     /\ pc' = "loop"
                     /\ UNCHANGED <<pendV, pendErr, panic>>
    /\ log' = IF e = NoErr THEN <<Ev("run", 0, argValues(params), FALSE)>>
               ELSE <<Ev("run", 0, argValues(params), FALSE),
                      Ev("cancel", 0, <<>>, FALSE)>>
    /\ UNCHANGED builtVars
    /\ UNCHANGED parked
    /\ UNCHANGED <<taskV, taskErr, retV, retErr>>

\* The context is cancelled, or its deadline passes, while Run is under way.
Cancel(e) ==
    /\ pc \in {"loop", "body", "taskCleanup", "tcCleanup"}
    /\ ctx = "ctx"
    /\ ctxErr = NoErr
    /\ ctxErr' = e
    /\ log' = Append(log, Ev("cancel", i, <<>>, FALSE))
    /\ UNCHANGED builtVars
    /\ UNCHANGED parked
    /\ UNCHANGED <<pc, ctx, i, currentResults, taskV,
                   taskErr, pendV, pendErr, retV, retErr, panic>>

\* ctxDone with a test that knows context.Canceled only.
ctxDoneCanceledOnly == ctx # "nil" /\ ctxErr = Canceled

\* The test at the head of the loop body: ctx != nil && ctx.Err() != nil.
ctxDone == ctx # "nil" /\ ctxErr # NoErr

\* The loop finds the context done before task i: Run goes to its cleanup.
LoopCancelled ==
    /\ pc = "loop"
    /\ i < Len(chain.Tasks)
    /\ ctxDone
    /\ toCleanup(Zero(T), ctxErr)
    /\ log' = Append(log, Ev("ctxErr", i, <<>>, FALSE))
    /\ UNCHANGED builtVars
    /\ UNCHANGED parked
    /\ UNCHANGED <<ctx, ctxErr, i, currentResults,
                   taskV, taskErr, retV, retErr, panic>>

\* The loop calls t.Run(currentResults) for task i, whose Fn.Call enters the
\* callable or panics on the arguments.
Invoke ==
    /\ pc = "loop"
    /\ i < Len(chain.Tasks)
    /\ ~ctxDone
    /\ log' = Append(log, Ev("call", i, currentResults, FALSE))
    /\ IF callAccepts(chain.Tasks[i + 1].Fn, currentResults)
       THEN pc' = "body" /\ panic' = panic
       ELSE pc' = "panic" /\ panic' = "Call"
    /\ UNCHANGED builtVars
    /\ UNCHANGED parked
    /\ UNCHANGED <<ctx, ctxErr, i, currentResults,
                   taskV, taskErr, pendV, pendErr, retV, retErr>>

\* The callable of task i returns ret and Task.Run goes to its doCleanup.
Body ==
    /\ pc = "body"
    /\ \E ret \in Returns(chain.Tasks[i + 1].Fn, i) :
         LET t == chain.Tasks[i + 1]
             r == taskRun(t, i, ret)
         IN  /\ taskV' = r.v
             /\ taskErr' = r.err
             /\ log' = Append(log, Ev("ret", i, dataOuts(t, ret), signalsErr(t, ret)))
    /\ pc' = "taskCleanup"
    /\ UNCHANGED builtVars
    /\ UNCHANGED parked
    /\ UNCHANGED <<ctx, ctxErr, i, currentResults,
                   pendV, pendErr, retV, retErr, panic>>

\* Task.doCleanup runs the Cleanup of task i, if any, Task.Run returns and
\* the loop goes on or Run goes to its cleanup with the task's error.
TaskCleanup(fail) ==
    /\ pc = "taskCleanup"
    /\ LET t == chain.Tasks[i + 1]
           r == taskDoCleanup(t, i, taskV, taskErr, fail)
           a == afterTask(T, i, r.v, r.err)
       IN  /\ log' = IF t.Cleanup THEN Append(log, Ev("cleanup", i, <<>>, fail)) ELSE log
           /\ IF a.stop
              THEN /\ toCleanup(a.v, a.err)
                   /\ UNCHANGED <<i, currentResults>>
              ELSE /\ currentResults' = r.v
                   /\ i' = i + 1
                   /\ pc' = "loop"
                   /\ UNCHANGED <<pendV, pendErr>>
    /\ UNCHANGED builtVars
    /\ UNCHANGED parked
    /\ UNCHANGED <<ctx, ctxErr, taskV, taskErr, retV,
                   retErr, panic>>

\* Finish without the test for an empty currentResults: it always narrows
\* the last result, and faults when there is none.
FinishWithoutEmptyTest ==
    /\ pc = "loop"
    /\ i >= Len(chain.Tasks)
    /\ IF /\ Len(currentResults) > 0
          /\ assertsTo(currentResults[Len(currentResults)], T)
       THEN /\ toCleanup(asT(currentResults[Len(currentResults)], T), NoErr)
            /\ panic' = panic
       ELSE /\ pc' = "panic"
            /\ panic' = "assert"
            /\ UNCHANGED <<pendV, pendErr>>
    /\ UNCHANGED builtVars
    /\ UNCHANGED <<ctx, ctxErr, i, currentResults,
                   taskV, taskErr, retV, retErr, log, parked>>

\* The loop is over: Run goes to its cleanup with the zero value when there
\* are no results, with the last result as a T otherwise.
Finish ==
    /\ pc = "loop"
    /\ i >= Len(chain.Tasks)
    /\ IF Len(currentResults) = 0
       THEN toCleanup(Zero(T), NoErr) /\ panic' = panic
       ELSE LET last == currentResults[Len(currentResults)]
            IN  IF assertsTo(last, T)
                THEN toCleanup(asT(last, T), NoErr) /\ panic' = panic
                ELSE /\ pc' = "panic"
                     /\ panic' = "assert"
                     /\ UNCHANGED <<pendV, pendErr>>
    /\ UNCHANGED builtVars
    /\ UNCHANGED parked
    /\ UNCHANGED <<ctx, ctxErr, i, currentResults,
                   taskV, taskErr, retV, retErr, log>>

\* tc.doCleanup runs the chain's Cleanup, if any, and Run returns.
ChainCleanup(fail) ==
    /\ pc = "tcCleanup"
    /\ LET r == chainDoCleanup(chain, pendV, pendErr, fail)
       IN  /\ retV' = r.v
           /\ retErr' = r.err
    /\ log' = IF chain.Cleanup
               THEN Append(log, Ev("chainCleanup", 0, <<>>, fail))
               ELSE log
    /\ pc' = "done"
    /\ UNCHANGED builtVars
    /\ UNCHANGED parked
    /\ UNCHANGED <<ctx, ctxErr, i, currentResults,
                   taskV, taskErr, pendV, pendErr, panic>>

Next ==
    \/ \E cleanup \in BOOLEAN, fn \in Fns \cup {NilFn, IntFn} : AddTask(cleanup, fn)
    \/ \E t \in ResultTypes, cleanup \in BOOLEAN : CallNewTaskChain(t, cleanup)
    \/ \E c \in {"nil", "ctx"}, e \in {NoErr, Canceled}, params \in Params :
          (c = "nil" => e = NoErr) /\ Run(c, e, params)
    \/ \E e \in {Canceled, DeadlineExceeded} : Cancel(e)
    \/ LoopCancelled
    \/ Invoke
    \/ Body
    \/ \E fail \in BOOLEAN : TaskCleanup(fail)
    \/ Finish
    \/ \E fail \in BOOLEAN : ChainCleanup(fail)

Spec == Init /\ [][Next]_vars

(* Two callers run the same chain ******************************************)

\* The chains the two callers share: the first and second tasks of the chain
\* tests, each with a Cleanup, behind a nil entry or not.
first == NewTask(1, TRUE, Fn(<<"string">>, <<"int", "error">>)).task
second == NewTask(2, TRUE, Fn(<<"int">>, <<"int">>)).task

SharedTasks == {<<first, second>>, <<NilTask, second>>}

\* resumed that takes currentResults from the call that just stepped, as if
\* it were a field of the chain.
resumedSharingResults(own, other) ==
    [own EXCEPT !.currentResults = other.currentResults]

\* The locals a Run call finds when it steps again after another call
\* (other) stepped: its own, as Run keeps all it writes in its frame.
resumed(own, other) == own

\* A chain built with a Cleanup from one of SharedTasks, and no Run call yet.
InitRuns ==
    /\ \E tasks \in SharedTasks, t \in {"int", "any"} :
          LET cfg == [Name |-> "chain", Cleanup |-> TRUE, Tasks |-> tasks]
              r == NewTaskChain(t, cfg)
          IN  /\ ~r.chain.nil
              /\ config = [cfg EXCEPT !.Tasks = r.Tasks]
              /\ given = tasks
              /\ T = t
              /\ chain = r.chain
              /\ newErr = r.err
    /\ pc = "idle"
    /\ ctx = "nil"
    /\ ctxErr = NoErr
    /\ i = 0
    /\ currentResults = <<>>
    /\ taskV = <<>>
    /\ taskErr = NoErr
    /\ pendV = NoVal
    /\ pendErr = NoErr
    /\ retV = NoVal
    /\ retErr = NoErr
    /\ panic = "none"
    /\ log = <<>>
    /\ parked = idleCall

\* The scheduler lets the other caller's Run call step: the call that
\* stepped is parked with its locals and the parked one resumes.
Switch ==
    /\ pc \in {"idle", "loop", "body", "taskCleanup", "tcCleanup", "done"}
    /\ parked' = thisCall
    /\ LET r == resumed(parked, thisCall)
       IN  /\ pc' = r.pc
           /\ ctx' = r.ctx
           /\ ctxErr' = r.ctxErr
           /\ i' = r.i
           /\ currentResults' = r.currentResults
           /\ taskV' = r.taskV
           /\ taskErr' = r.taskErr
           /\ pendV' = r.pendV
           /\ pendErr' = r.pendErr
           /\ retV' = r.retV
           /\ retErr' = r.retErr
           /\ log' = r.log
    /\ UNCHANGED builtVars
    /\ UNCHANGED panic

\* The caller has its result: the frame of the Run call is gone and the
\* caller may call Run again.
Return ==
    /\ pc = "done"
    /\ pc' = "idle"
    /\ ctx' = idleCall.ctx
    /\ ctxErr' = idleCall.ctxErr
    /\ i' = idleCall.i
    /\ currentResults' = idleCall.currentResults
    /\ taskV' = idleCall.taskV
    /\ taskErr' = idleCall.taskErr
    /\ pendV' = idleCall.pendV
    /\ pendErr' = idleCall.pendErr
    /\ retV' = idleCall.retV
    /\ retErr' = idleCall.retErr
    /\ log' = idleCall.log
    /\ UNCHANGED builtVars
    /\ UNCHANGED <<panic, parked>>

NextRuns ==
    \/ \E c \in {"nil", "ctx"}, e \in {NoErr, Canceled}, params \in Params :
          (c = "nil" => e = NoErr) /\ Run(c, e, params)
    \/ \E e \in {Canceled, DeadlineExceeded} : Cancel(e)
    \/ LoopCancelled
    \/ Invoke
    \/ Body
    \/ \E fail \in BOOLEAN : TaskCleanup(fail)
    \/ Finish
    \/ \E fail \in BOOLEAN : ChainCleanup(fail)
    \/ Switch
    \/ Return

SpecRuns == InitRuns /\ [][NextRuns]_vars

----------------------------------------------------------------------------
(* Properties **************************************************************)

\* The positions of log that hold an event ev.
At(ev) == {k \in 1..Len(log) : log[k].ev = ev}

\* The positions of log that hold an event ev of the task with index idx.
AtOf(ev, idx) == {k \in At(ev) : log[k].idx = idx}

\* The non-nil entries of a task sequence, in order.
NonNil(tasks) == SelectSeq(tasks, LAMBDA t : ~t.nil)

\* Some adjacent pair of tasks is incompatible as the specification defines
\* it: the producer's non-error output count differs from the consumer's
\* input count, or some output type is not assignable to the input type at
\* its position.
Incompatible(tasks) ==
    \E k \in 1..(Len(tasks) - 1) :
        \/ Len(tasks[k].ReturnValueTypes) # Len(tasks[k + 1].Fn.in)
        \/ \E m \in 1..Len(tasks[k].ReturnValueTypes) :
              ~AssignableTo(tasks[k].ReturnValueTypes[m], tasks[k + 1].Fn.in[m])

\* NewTaskChain has returned.
Built == pc # "config"

\* C1: every task a Run invokes gets as many values as it declares inputs,
\* each of a type assignable to the input at its position, so Fn.Call never
\* panics on its arguments.
C1_CallArgsMatchInputs ==
    /\ panic # "Call"
    /\ \A k \in At("call") :
          callAccepts(chain.Tasks[log[k].idx + 1].Fn, log[k].vals)

\* C2: NewTaskChain returns no chain and the incompatible-signature error
\* exactly when some adjacent pair of the non-nil tasks is incompatible.
C2_RejectsExactlyIncompatible ==
    Built =>
        ((chain.nil /\ Is(newErr, IncompatibleFunctionSignatureErr[1]))
            <=> Incompatible(NonNil(given)))

\* C3: when the loop of Run is over on a chain with output, the last of the
\* final values is assignable to T and its narrowing to T succeeds.
C3_LastResultNarrowsToT ==
    /\ panic # "assert"
    /\ (pc = "loop" /\ i >= Len(chain.Tasks) /\ chain.hasOutput) =>
          LET last == currentResults[Len(currentResults)]
          IN  AssignableTo(last.st, T) /\ assertsTo(last, T)

\* C4, in every state: no task is invoked once the context is done, and when
\* the loop found the context done before task k, no task from k on was
\* invoked, returned or cleaned up, Run hands the zero value and the
\* context's error to its cleanup and returns the zero value with an error
\* that holds the context's error.
C4Inv ==
    /\ \A p \in At("cancel"), q \in At("call") : q < p
    /\ \A p \in At("ctxErr") :
          /\ \A q \in At("call") \cup At("ret") \cup At("cleanup") :
                q < p /\ log[q].idx < log[p].idx
          /\ ctxErr \in {Canceled, DeadlineExceeded}
          /\ pendV = Zero(T) /\ pendErr = ctxErr
          /\ pc = "done" =>
                /\ retV = Zero(T)
                /\ Is(retErr, ctxErr[1])
                /\ retErr \in {ctxErr, Join(ChainCleanupErr, ctxErr)}

\* C4, in every step: a loop that stands before task k with the context done
\* goes to the cleanup of Run.
C4Step ==
    (pc = "loop" /\ i < Len(chain.Tasks) /\ ctx # "nil" /\ ctxErr # NoErr) =>
        /\ pc' = "tcCleanup"
        /\ log' = Append(log, Ev("ctxErr", i, <<>>, FALSE))

\* C4: if the context is done before task k would be invoked, tasks k..end
\* are never executed (neither body nor cleanup) and Run returns the zero
\* value of T with the context's error.
C4_CancelledSkipsRest == []C4Inv /\ [][C4Step]_vars

\* C4 happens: the first task ran, the loop found the context done before the
\* second one, and Run returned.
C4_Witness ==
    /\ pc = "done"
    /\ AtOf("ret", 0) # {}
    /\ AtOf("ctxErr", 1) # {}
    /\ ctxErr = DeadlineExceeded

\* C5: a Run of a chain built from a config with a Cleanup calls it exactly
\* once, as its last step, whatever the exit path.
C5_ChainCleanupOnceLast ==
    (pc = "done" /\ config.Cleanup) =>
        /\ Cardinality(At("chainCleanup")) = 1
        /\ log[Len(log)].ev = "chainCleanup"

\* C6: the Cleanup of a task runs at most once per invocation and only after
\* the callable returned; when the loop goes on to the next task or Run
\* exits, every invoked task with a Cleanup has had it run exactly once.
C6_TaskCleanupOnceAfterBody ==
    \A c \in At("call") :
        LET k == log[c].idx
        IN  chain.Tasks[k + 1].Cleanup =>
              /\ Cardinality(AtOf("cleanup", k)) <= 1
              /\ \A u \in AtOf("cleanup", k) : \E r \in AtOf("ret", k) : c < r /\ r < u
              /\ (pc \in {"loop", "tcCleanup", "done", "panic"})
                    => Cardinality(AtOf("cleanup", k)) = 1

\* C7: whenever Run returns a non-nil error, the value it returns is the
\* zero value of T.
C7_FailureReturnsZero ==
    (pc = "done" /\ retErr # NoErr) => retV = Zero(T)

\* C7 as amended: when Run returns an error that holds a cause other than
\* the chain cleanup's, the value is the zero value of T; when the chain
\* cleanup's error is all there is, the value is the one computed before
\* the cleanup.
C7_FailureBeforeCleanupReturnsZero ==
    pc = "done" =>
        /\ (retErr # NoErr /\ retErr # ChainCleanupErr) => retV = Zero(T)
        /\ retErr = ChainCleanupErr => (retV = pendV /\ pendErr = NoErr)

\* C7 happens: a task ran and produced a value, Run failed on it and on the
\* chain cleanup, and returned.
C7_Witness ==
    /\ pc = "done"
    /\ Len(retErr) > 1
    /\ Is(retErr, ChainCleanupErr[1])
    /\ \E r \in At("ret") : Len(log[r].vals) > 0
    /\ \E u \in At("cleanup") : log[u].fail

\* C8: when the chain's Cleanup fails, Run returns the value computed before
\* it with the cleanup error joined in front of the prior error (alone when
\* there was none); otherwise the prior value and error, unchanged.
C8_ChainCleanupJoins ==
    pc = "done" =>
        /\ retV = pendV
        /\ IF \E k \in At("chainCleanup") : log[k].fail
           THEN /\ retErr = ChainCleanupErr \o pendErr
                /\ retErr[1] = ChainCleanupErr[1]
                /\ \A k \in 1..Len(pendErr) : retErr[k + 1] = pendErr[k]
           ELSE retErr = pendErr

\* C8 happens: a task failed, the chain's Cleanup failed too, and Run
\* returned.
C8_Witness ==
    /\ pc = "done"
    /\ \E k \in At("chainCleanup") : log[k].fail
    /\ \E r \in At("ret") : log[r].fail

\* Nothing failed in this Run: no callable or cleanup returned an error and
\* the loop did not find the context done.
NothingFailed ==
    /\ \A k \in 1..Len(log) : ~log[k].fail
    /\ At("ctxErr") = {}

\* C9: when nothing fails, every task is invoked exactly once, in index
\* order, task 0 with the arguments of Run and task k+1 with the non-error
\* outputs of task k, and Run returns the last of the last task's non-error
\* outputs with a nil error.
C9_ValuesThreadInOrder ==
    /\ panic \notin {"Call", "assert"}
    /\ \A c \in At("call") :
          /\ Cardinality(AtOf("call", log[c].idx)) = 1
          /\ \A d \in At("call") : d < c => log[d].idx < log[c].idx
          /\ IF log[c].idx = 0 THEN log[c].vals = log[1].vals
             ELSE \E r \in AtOf("ret", log[c].idx - 1) :
                    r < c /\ log[c].vals = log[r].vals
    /\ (pc = "done" /\ NothingFailed /\ At("call") # {}) =>
          /\ \A k \in 0..(Len(chain.Tasks) - 1) : AtOf("call", k) # {}
          /\ retErr = NoErr
          /\ \A r \in AtOf("ret", Len(chain.Tasks) - 1) :
                Len(log[r].vals) > 0 =>
                    LET last == log[r].vals[Len(log[r].vals)]
                    IN  retV = Val(T, last.dt, last.kind, last.src, last.pos)

\* C10: when the callable of task k returns a non-nil error, no task after k
\* is invoked and Run does not fault; Run returns the zero value of T and an
\* error that holds the task's error, after each of the tasks 0..k was invoked
\* once and had its Cleanup, if any, run once, and after the chain's Cleanup,
\* if any, ran once as the last step.
C10_TaskErrorStopsRun ==
    \A r \in At("ret") :
        log[r].fail =>
            LET k == log[r].idx
            IN  /\ \A c \in At("call") : log[c].idx <= k
                /\ pc \in {"taskCleanup", "tcCleanup", "done"}
                /\ pc \in {"tcCleanup", "done"} =>
                      /\ pendV = Zero(T)
                      /\ Is(pendErr, TaskErr(k)[1])
                      /\ \A j \in 0..k :
                            /\ Cardinality(AtOf("call", j)) = 1
                            /\ chain.Tasks[j + 1].Cleanup
                                  => Cardinality(AtOf("cleanup", j)) = 1
                /\ pc = "done" =>
                      /\ retV = Zero(T)
                      /\ Is(retErr, TaskErr(k)[1])
                      /\ chain.Cleanup =>
                            /\ Cardinality(At("chainCleanup")) = 1
                            /\ log[Len(log)].ev = "chainCleanup"

\* C10 happens: the second task's callable returned an error after the first
\* task succeeded, both had a Cleanup, and Run returned through the chain's
\* Cleanup.
C10_Witness ==
    /\ pc = "done"
    /\ \E r \in AtOf("ret", 1) : log[r].fail
    /\ chain.Cleanup
    /\ \A j \in 1..2 : chain.Tasks[j].Cleanup

\* Run has been called on a chain with at least one task.
RunOnTasks == Len(log) > 0 /\ Len(chain.Tasks) > 0

\* The arguments of the Run do not fit the first task: their count differs
\* from its declared inputs, or some argument is not assignable to the
\* parameter at its position (an untyped nil fits interface parameters only).
ArgsMismatch ==
    LET fn == chain.Tasks[1].Fn
        args == log[1].vals
    IN  \/ Len(args) # Len(fn.in)
        \/ \E k \in 1..Len(args) :
              IF args[k].st = "nil" THEN ~IsInterface(fn.in[k])
              ELSE ~AssignableTo(args[k].st, fn.in[k])

\* C11: when the arguments of Run do not fit the first task in count or in
\* type, Run does not fault, invokes no task and no task cleanup, hands the
\* zero value of T and an error wrapped with the chain's name to its cleanup,
\* and returns them after the chain's Cleanup, if any, ran exactly once.
C11_BadArgsRejected ==
    (RunOnTasks /\ ArgsMismatch) =>
        /\ panic = "none"
        /\ At("call") \cup At("ret") \cup At("cleanup") = {}
        /\ pc \in {"tcCleanup", "done"}
        /\ pendV = Zero(T)
        /\ Len(pendErr) > 1 /\ pendErr[1] = E("error running", -1)
        /\ pc = "done" =>
              /\ retV = Zero(T)
              /\ Is(retErr, E("error running", -1))
              /\ chain.Cleanup => Cardinality(At("chainCleanup")) = 1

\* C12: a config whose Tasks holds no task, or nil entries only, gives a
\* chain without an error, and a Run of it, whatever the arguments and the
\* context, validates nothing, invokes nothing, does not fault and returns
\* the zero value of T and a nil error.
C12_EmptyChainRunsToZero ==
    (Built /\ NonNil(given) = <<>>) =>
        /\ ~chain.nil /\ newErr = NoErr /\ chain.Tasks = <<>>
        /\ panic = "none"
        /\ pc \in {"idle", "tcCleanup", "done"}
        /\ At("call") \cup At("ctxErr") = {}
        /\ pc = "tcCleanup" => (pendV = Zero(T) /\ pendErr = NoErr)
        /\ pc = "done" => (retV = Zero(T) /\ retErr = NoErr)

\* C12 happens: a chain built from two nil entries was run with an untyped
\* nil argument and a context that was cancelled already, and Run returned.
C12_Witness ==
    /\ pc = "done"
    /\ given = <<NilTask, NilTask>>
    /\ ctx = "ctx" /\ ctxErr = Canceled
    /\ log[1].vals = argValues(<<"nil">>)

\* The positions of the log of the Run call r that hold an event ev.
InCall(r, ev) == {k \in 1..Len(r.log) : r.log[k].ev = ev}

\* The Run call r worked on its own values: task 0 got the arguments of r,
\* task k+1 what task k returned to r.
OwnThreading(r) ==
    \A c \in InCall(r, "call") :
        IF r.log[c].idx = 0 THEN r.log[c].vals = r.log[1].vals
        ELSE \E q \in InCall(r, "ret") :
                /\ q < c
                /\ r.log[q].idx = r.log[c].idx - 1
                /\ r.log[c].vals = r.log[q].vals

\* What the Run call r returned follows from its own arguments, context and
\* callbacks: the context's error when its loop found its context done, the
\* task's error when one of its callables failed, and when nothing of its own
\* failed, a nil error with the last value its last task returned to it.
OwnResult(r) ==
    (r.pc = "done" /\ InCall(r, "call") # {}) =>
        /\ InCall(r, "ctxErr") # {} =>
              (r.retV = Zero(T) /\ Is(r.retErr, r.ctxErr[1]))
        /\ \A q \in InCall(r, "ret") :
              r.log[q].fail =>
                  (r.retV = Zero(T) /\ Is(r.retErr, TaskErr(r.log[q].idx)[1]))
        /\ ((\A k \in 1..Len(r.log) : ~r.log[k].fail) /\ InCall(r, "ctxErr") = {}) =>
              /\ r.retErr = NoErr
              /\ \A q \in InCall(r, "ret") :
                    (r.log[q].idx = Len(chain.Tasks) - 1 /\ Len(r.log[q].vals) > 0) =>
                        r.retV = asT(r.log[q].vals[Len(r.log[q].vals)], T)

\* C13: while two callers call Run on one chain, again and again and step by
\* step in any interleaving, the chain (tasks, hasOutput, Cleanup, Name) stays
\* what NewTaskChain made of the config, and each call works on its own
\* values and returns what its own arguments, context and callbacks give.
C13_RunLeavesChainAlone ==
    /\ chain = NewTaskChain(T, [config EXCEPT !.Tasks = given]).chain
    /\ OwnThreading(thisCall) /\ OwnThreading(parked)
    /\ OwnResult(thisCall) /\ OwnResult(parked)

\* C13 happens: one caller's Run is inside the callable of the second task
\* while the Run of the other caller, called with another context, is in the
\* cleanup of the first task.
C13_Witness ==
    /\ pc = "body" /\ i = 1
    /\ parked.pc = "taskCleanup" /\ parked.i = 0
    /\ parked.ctx # ctx
    /\ chain.Tasks = <<first, second>>

CleanupOnlyFailed ==
    {u \in At("cleanup") :
        /\ log[u].fail
        /\ \E r \in AtOf("ret", log[u].idx) : r < u /\ ~log[r].fail}

\* C15: when the Cleanup of task k fails after its callable succeeded, Run
\* goes to its cleanup at once: no task after k is invoked or cleaned up, the
\* value is the zero value of T, the error holds the task's cleanup error,
\* each of the tasks 0..k was invoked once and had its Cleanup, if any, run
\* once, and the chain's Cleanup, if any, runs once as the last step.
C15_CleanupFailureStopsRun ==
    \A u \in CleanupOnlyFailed :
        LET k == log[u].idx
        IN  /\ \A q \in At("call") \cup At("ret") \cup At("cleanup") : log[q].idx <= k
            /\ pc \in {"tcCleanup", "done"}
            /\ panic = "none"
            /\ pendV = Zero(T)
            /\ Is(pendErr, TaskCleanupErr(k)[1])
            /\ ~Is(pendErr, TaskErr(k)[1])
            /\ \A j \in 0..k :
                  /\ Cardinality(AtOf("call", j)) = 1
                  /\ chain.Tasks[j + 1].Cleanup
                        => Cardinality(AtOf("cleanup", j)) = 1
            /\ pc = "done" =>
                  /\ retV = Zero(T)
                  /\ Is(retErr, TaskCleanupErr(k)[1])
                  /\ chain.Cleanup =>
                        /\ Cardinality(At("chainCleanup")) = 1
                        /\ log[Len(log)].ev = "chainCleanup"

\* C15 happens: the first task of two succeeded with a value, its Cleanup
\* failed, and Run returned through the chain's Cleanup.
C15_Witness ==
    /\ pc = "done"
    /\ \E u \in CleanupOnlyFailed :
          /\ log[u].idx = 0
          /\ \E r \in AtOf("ret", 0) : Len(log[r].vals) > 0
    /\ Len(chain.Tasks) = 2
    /\ chain.Cleanup

\* vals are the outputs of the callable of task k that stand before its
\* trailing error, or all of them when it declares none, in their order.
DataOutputsOf(k, vals) ==
    LET t == chain.Tasks[k + 1]
        n == IF t.hasErrorOut THEN Len(t.Fn.out) - 1 ELSE Len(t.Fn.out)
    IN  /\ Len(vals) = n
        /\ \A m \in 1..n :
              /\ vals[m].kind = "out" /\ vals[m].src = k /\ vals[m].pos = m
              /\ vals[m].st = t.Fn.out[m]

\* The Cleanup of task k ran and failed.
CleanupFailed(k) == \E u \in AtOf("cleanup", k) : log[u].fail

\* C16: what Task.Run makes of the outputs of the callable of task k.  A
\* non-nil trailing error: no values, and the task's error, behind the
\* cleanup's error when the Cleanup fails too.  A nil trailing error, or no
\* error output: the outputs before the error slot, in order, with a nil
\* error, and the cleanup's error alone when the Cleanup fails.
C16_TaskRunNormalizes ==
    \A r \in At("ret") :
        LET k == log[r].idx
            wrap == <<E("error running task", k)>>
        IN  /\ log[r].fail => chain.Tasks[k + 1].hasErrorOut
            /\ (pc = "taskCleanup" /\ i = k) =>
                  IF log[r].fail
                  THEN taskV = <<>> /\ taskErr = TaskErr(k)
                  ELSE DataOutputsOf(k, taskV) /\ taskV = log[r].vals /\ taskErr = NoErr
            /\ (pc = "tcCleanup" /\ i = k /\ At("ctxErr") = {}) =>
                  pendErr =
                     IF log[r].fail /\ CleanupFailed(k)
                     THEN wrap \o TaskCleanupErr(k) \o TaskErr(k)
                     ELSE IF log[r].fail THEN wrap \o TaskErr(k)
                     ELSE wrap \o TaskCleanupErr(k)
            /\ (pc = "loop" /\ i = k + 1) =>
                  /\ ~log[r].fail /\ ~CleanupFailed(k)
                  /\ DataOutputsOf(k, currentResults)
                  /\ currentResults = log[r].vals

\* C16 happens: the callable of a task with a value and an error output
\* returned a non-nil error, the task's Cleanup failed too, and Task.Run
\* returned both errors to the loop.
C16_Witness ==
    /\ pc = "tcCleanup"
    /\ \E r \in AtOf("ret", i) : log[r].fail
    /\ CleanupFailed(i)
    /\ Len(chain.Tasks[i + 1].Fn.out) = 2

\* Run works on a chain whose last task declares no output but, at most, an
\* error, and every task's callable has returned without an error and no
\* task's Cleanup has failed.
NoOutputAllSucceeded ==
    /\ ~chain.nil /\ Len(chain.Tasks) > 0 /\ ~chain.hasOutput
    /\ \A k \in 0..(Len(chain.Tasks) - 1) :
          /\ \E r \in AtOf("ret", k) : ~log[r].fail
          /\ ~CleanupFailed(k)

\* C17: when every task of a chain without output succeeded, Run returns the
\* zero value of T and a nil error, and every task ran exactly once.
C17_NoOutputReturnsZero ==
    (pc = "done" /\ NoOutputAllSucceeded) =>
        /\ retV = Zero(T) /\ retErr = NoErr
        /\ \A k \in 0..(Len(chain.Tasks) - 1) : Cardinality(AtOf("call", k)) = 1

\* C17 as amended: when every task of a chain without output succeeded, each
\* task was invoked exactly once, Run does not fault and hands the zero value
\* of T and a nil error to its cleanup; it returns the zero value with a nil
\* error, or with the chain cleanup's error alone when the chain's Cleanup
\* fails.
C17_NoOutputReturnsZeroOrCleanupErr ==
    NoOutputAllSucceeded =>
        /\ panic = "none"
        /\ pc \in {"taskCleanup", "loop", "tcCleanup", "done"}
        /\ \A k \in 0..(Len(chain.Tasks) - 1) :
              Cardinality(AtOf("call", k)) = 1 /\ Cardinality(AtOf("ret", k)) = 1
        /\ pc \in {"tcCleanup", "done"} => (pendV = Zero(T) /\ pendErr = NoErr)
        /\ pc = "done" =>
              /\ retV = Zero(T)
              /\ retErr = IF \E u \in At("chainCleanup") : log[u].fail
                          THEN ChainCleanupErr ELSE NoErr

\* C17 happens: both tasks of a chain of type int whose last task returns
\* nothing succeeded, the chain's Cleanup failed, and Run returned.
C17_Witness ==
    /\ pc = "done"
    /\ NoOutputAllSucceeded
    /\ Len(chain.Tasks) = 2 /\ T = "int"
    /\ \E u \in At("chainCleanup") : log[u].fail

\* The error of verifyReturnType.
ReturnTypeErr == E("return type is not compatible to the last output type", -1)

\* C18: NewTaskChain[T] does not refuse, for its return type, a chain of
\* compatible tasks whose last task's last non-error output is assignable to
\* T, with or without a trailing error output, nor one whose last task has no
\* non-error output.
C18_AcceptsAssignableLastOutput ==
    (Built /\ NonNil(given) # <<>> /\ ~Incompatible(NonNil(given))) =>
        LET kept == NonNil(given)
            rvt == kept[Len(kept)].ReturnValueTypes
        IN  (rvt = <<>> \/ AssignableTo(rvt[Len(rvt)], T)) =>
                ~Is(newErr, ReturnTypeErr)

\* C19: after NewTaskChain the caller's config.Tasks holds the entries it
\* held before, each at its position, and NewTaskChain called again with the
\* same config gives a chain of the same tasks.
C19_ConfigUnchanged ==
    Built =>
        /\ config.Tasks = given
        /\ ~chain.nil => NewTaskChain(T, config).chain.Tasks = chain.Tasks

\* The context is done for the first time at position p of log, after task k
\* was invoked.
FirstDoneAfterCall(p, k) ==
    /\ p \in At("cancel")
    /\ \A q \in At("cancel") : p <= q
    /\ \E c \in AtOf("call", k) : c < p

\* The context is done for the first time at position p of log, after task k
\* was invoked and before the loop comes back to its head.
FirstDoneDuring(p, k) == FirstDoneAfterCall(p, k) /\ log[p].idx = k

\* Task k is through, callable and Cleanup, without an error.
Succeeded(k) ==
    /\ \E r \in AtOf("ret", k) : ~log[r].fail
    /\ ~CleanupFailed(k)
    /\ pc \notin {"body", "taskCleanup"} \/ i > k

\* C20, the last task: when the context is done for the first time after the
\* last task was invoked and that task succeeds, Run does not fault, finds no
\* context error and returns the computed value with a nil error (the chain
\* cleanup's error when the chain's Cleanup fails).
C20LastTask ==
    \A p \in At("cancel") :
        FirstDoneAfterCall(p, Len(chain.Tasks) - 1) =>
            /\ At("ctxErr") = {}
            /\ Succeeded(Len(chain.Tasks) - 1) =>
                  /\ panic = "none"
                  /\ pc \in {"tcCleanup", "done"} => pendErr = NoErr
                  /\ pc = "done" =>
                        /\ retV = pendV
                        /\ ~Is(retErr, Canceled[1]) /\ ~Is(retErr, DeadlineExceeded[1])
                        /\ (\A u \in At("chainCleanup") : ~log[u].fail) => retErr = NoErr
                        /\ \A r \in AtOf("ret", Len(chain.Tasks) - 1) :
                              Len(log[r].vals) > 0 =>
                                  retV = asT(log[r].vals[Len(log[r].vals)], T)

\* C20, a task k before the last: when the context is done for the first
\* time while task k runs, task k still returns and has its Cleanup run, no
\* task after k is invoked, and when task k succeeded the loop finds the
\* context done before task k+1 and Run hands the context's error to its
\* cleanup.
C20EarlierTask ==
    \A p \in At("cancel"), k \in 0..(Len(chain.Tasks) - 2) :
        FirstDoneDuring(p, k) =>
            /\ \A c \in At("call") : log[c].idx <= k
            /\ \A x \in At("ctxErr") : log[x].idx = k + 1
            /\ panic = "none"
            /\ pc \in {"loop", "tcCleanup", "done"} =>
                  /\ Cardinality(AtOf("ret", k)) = 1
                  /\ chain.Tasks[k + 1].Cleanup => Cardinality(AtOf("cleanup", k)) = 1
            /\ (pc \in {"tcCleanup", "done"} /\ Succeeded(k)) =>
                  /\ AtOf("ctxErr", k + 1) # {}
                  /\ pendV = Zero(T) /\ pendErr = ctxErr

\* C20: Run looks at the context only before it invokes a task.  Done during
\* or after the last task, which succeeds: Run returns the computed value
\* with a nil error.  Done during an earlier task: that task completes with
\* its Cleanup and the next task is the first that is skipped.
C20_CancelSeenBeforeTasksOnly == C20LastTask /\ C20EarlierTask

\* C21: for every argument list of the right count, untyped nil arguments
\* included, the validation of Run does not fault: Run goes on to the loop
\* over the tasks, or it hands the zero value of T and an error wrapped with
\* the chain's name to its cleanup, invokes no task, and returns that error
\* after the chain's Cleanup, if any, ran exactly once.
C21_ValidationIsTotal ==
    (RunOnTasks /\ Len(log[1].vals) = Len(chain.Tasks[1].Fn.in)) =>
        /\ panic # "verifyInitialParams"
        /\ \/ pc = "loop" \/ At("call") # {} \/ At("ctxErr") # {}
           \/ /\ pc \in {"tcCleanup", "done"}
              /\ pendV = Zero(T)
              /\ Len(pendErr) > 1 /\ pendErr[1] = E("error running", -1)
              /\ pc = "done" =>
                    /\ Is(retErr, E("error running", -1))
                    /\ chain.Cleanup => Cardinality(At("chainCleanup")) = 1

====
